---- MODULE Spec2Model ----
(***************************************************************************)
(* Model of mobile-alerts-grafana: the fetch daemon (src/fetcher/main.py), *)
(* the staleness probe (src/fetcher/healthcheck.py) and the association    *)
(* syncer (src/room_sync/sync.py), each running against the store          *)
(* (tables measurements and room_assoc).                                   *)
(*                                                                         *)
(* Time is kept in seconds.  The daemon only ever uses time.time() in the  *)
(* difference time.time() - cycle_start, so the clock `now` is measured    *)
(* from the start of the current cycle and saturates at MaxClock.          *)
(***************************************************************************)
EXTENDS Integers, Sequences, FiniteSets, Bags, TLC

VARIABLES
    \* ---- the store ----
    dbUp,          \* the store accepts connections
    measurements,  \* table measurements: a bag of rows
    \* ---- fetch daemon (src/fetcher/main.py) ----
    pc,            \* position of the daemon
    sensor_ids,    \* parse_sensor_ids(SENSOR_IDS_ENV)
    d_creds,       \* DB_NAME, DB_USER and DB_PASSWORD are all set (lines 19-21)
    now,           \* time.time() - cycle_start
    elapsed,       \* main: elapsed
    sleep_for,     \* main: sleep_for
    conn,          \* the global _conn: "None", "open" or "closed" (_conn.closed)
    session,       \* the server still holds the session behind _conn
    devices,       \* fetch_data: devices
    idx,           \* fetch_data: position of the for loop in devices
    inserted,      \* fetch_data: inserted
    attempt,       \* insert_into_db: 1 = first try, 2 = the retry, 0 = not in a call
    \* ---- staleness probe (src/fetcher/healthcheck.py) ----
    h_pc,          \* position of the probe
    h_sensors,     \* main: sensors
    h_creds,       \* DB_NAME, DB_USER and DB_PASSWORD are all set
    h_now,         \* main: now (seconds)
    h_session,     \* the probe's connection is open and its session alive
    h_i,           \* main: position of the for loop in sensors
    recent_count,  \* main: recent_count
    h_exit,        \* exit status of the probe, NoExit while it runs
    \* ---- association syncer (src/room_sync/sync.py) ----
    room_assoc,    \* table room_assoc as committed: a sequence of rows
    s_pc,          \* position of the syncer
    s_creds,       \* DB_NAME, DB_USER and DB_PASSWORD are all set
    s_config,      \* the config file
    entries,       \* main: entries
    s_attempt,     \* get_db_connection: attempt
    s_session,     \* the syncer's connection is open and its session alive
    txn,           \* room_assoc as seen inside the syncer's open transaction
    s_exit,        \* exit status of the syncer, NoExit while it runs
    \* ---- a reader of room_assoc (a dashboard query) ----
    r_pc,          \* "off", "idle", or "waiting" for its SELECT to return
    r_rows,        \* what its last SELECT returned
    \* ---- history of the run (not read by the program) ----
    call,          \* the current / last insert_into_db call
    raisedAt,      \* indexes of devices whose processing raised (line 175)
    cycle,         \* outcome of the current / last fetch_data call
    h_hist,        \* the probe's run: connections opened, queries issued
    s_hist         \* the syncer's runs

probeVars == <<h_pc, h_sensors, h_creds, h_now, h_session, h_i, recent_count,
               h_exit, h_hist>>
syncVars  == <<room_assoc, s_pc, s_creds, s_config, entries, s_attempt, s_session,
               txn, s_exit, s_hist>>
daemonVars == <<pc, sensor_ids, d_creds, now, elapsed, sleep_for, conn, session, devices,
                idx, inserted, attempt, call, raisedAt, cycle>>

readerVars == <<r_pc, r_rows>>

\* everything the fetch daemon leaves alone
others == <<probeVars, syncVars, readerVars>>

vars == <<dbUp, measurements, daemonVars, probeVars, syncVars, readerVars>>

----------------------------------------------------------------------------
\* Bounds of the model

\* FETCH_INTERVAL_SECONDS is read from the environment (default 300).
FETCH_INTERVAL_SECONDS == 5
\* Longest device list of one API response.
MaxDevices == 3
\* Longest device list of one API response where behaviours are checked
\* for liveness.
ShortDevices == 1
\* Largest UNIX timestamp datetime.fromtimestamp accepts (scaled down).
MaxTimestamp == 2

\* Program constants
RETRY_DELAY_SECONDS == 5
HTTP_TIMEOUT_SECONDS == 10

\* the clock saturates once a cycle has overrun the interval
MaxClock == FETCH_INTERVAL_SECONDS + 1

Tick(t, d) == IF t + d > MaxClock THEN MaxClock ELSE t + d

NULL == "NULL"
EmptyDict == <<>>

\* dict.get(key) is not None
Has(d, k) == k \in DOMAIN d

----------------------------------------------------------------------------
\* The store: table measurements

SameKey(r, s) == r.sensor_id = s.sensor_id /\ r.time = s.time

\* the table holds a row with the (sensor_id, time) of row
HasKey(table, row) == \E r \in BagToSet(table) : SameKey(r, row)

\* INSERT INTO measurements ... without a conflict clause: the unique
\* constraint on (sensor_id, time) rejects the statement
InsertPlain(table, row) ==
    IF HasKey(table, row)
    THEN [rows |-> table, error |-> TRUE]
    ELSE [rows |-> table (+) SetToBag({row}), error |-> FALSE]

\* lines 79-83: INSERT INTO measurements ... ON CONFLICT (sensor_id, time) DO NOTHING
\* rows: the table after the statement, error: the statement raised
InsertOnConflictDoNothing(table, row) ==
    IF HasKey(table, row)
    THEN [rows |-> table, error |-> FALSE]
    ELSE [rows |-> table (+) SetToBag({row}), error |-> FALSE]

\* History of an insert_into_db call.
\*   status:  "running", then "returned" or "raised"
\*   handle:  the state of the stored handle when the call began, as long as the
\*            store was reachable then and nothing else went wrong during the
\*            call: "closed" (closed locally), "dead" (closed by the store),
\*            and "any" in every other case
\*   execs:   executions of the INSERT statement
\*   existed: the statement ran and found its (sensor_id, time) in the table
NoCall == [status |-> "none", handle |-> "any", execs |-> 0, existed |-> FALSE]
Disturbed(c) == IF c.status = "running" THEN [c EXCEPT !.handle = "any"] ELSE c

\* the result of a SELECT on room_assoc: ok = it returned rows,
\* blocked = it was issued while the table was locked
NoRows == [ok |-> FALSE, rows |-> <<>>, blocked |-> FALSE]

\* the store goes away: every session is lost, open transactions are aborted
StoreDown ==
    /\ dbUp
    /\ dbUp' = FALSE
    /\ r_pc' = IF r_pc = "waiting" THEN "idle" ELSE r_pc
    /\ r_rows' = IF r_pc = "waiting" THEN NoRows ELSE r_rows
    /\ session' = FALSE
    /\ h_session' = FALSE
    /\ s_session' = FALSE
    /\ call' = Disturbed(call)
    /\ UNCHANGED <<measurements, pc, sensor_ids, d_creds, now, elapsed, sleep_for, conn,
                   devices, idx, inserted, attempt, raisedAt, cycle>>
    /\ UNCHANGED <<h_pc, h_sensors, h_creds, h_now, h_i, recent_count, h_exit, h_hist>>
    /\ UNCHANGED <<room_assoc, s_pc, s_creds, s_config, entries, s_attempt, txn,
                   s_exit, s_hist>>

StoreUp ==
    /\ ~dbUp
    /\ dbUp' = TRUE
    /\ UNCHANGED <<measurements, daemonVars, others>>

\* the store closes the daemon's session while staying reachable
DropSession ==
    /\ session
    /\ session' = FALSE
    /\ call' = Disturbed(call)
    /\ UNCHANGED <<dbUp, measurements, pc, sensor_ids, d_creds, now, elapsed, sleep_for, conn,
                   devices, idx, inserted, attempt, raisedAt, cycle, others>>

\* the stored handle is closed locally (_conn.closed becomes non-zero) while
\* the daemon is between two cycles
ForceClose ==
    /\ conn = "open"
    /\ pc \in {"idle", "sleeping"}
    /\ conn' = "closed"
    /\ session' = FALSE
    /\ UNCHANGED <<dbUp, measurements, pc, sensor_ids, d_creds, now, elapsed, sleep_for,
                   devices, idx, inserted, attempt, call, raisedAt, cycle, others>>

----------------------------------------------------------------------------
\* The API response

\* device objects of a response
DeviceSamples ==
    { [deviceid |-> "A", measurement |-> [ts |-> 1, t1 |-> "20.5", t2 |-> "21.5"]],
      [deviceid |-> "A", measurement |-> [ts |-> 1, t1 |-> "18.0"]],
      [deviceid |-> "B", measurement |-> [ts |-> MaxTimestamp, t2 |-> "21.5"]],
      [deviceid |-> "B", measurement |-> [t1 |-> "20.5"]],
      [deviceid |-> "A", measurement |-> [ts |-> MaxTimestamp]],
      [deviceid |-> "B", measurement |-> [ts |-> MaxTimestamp + 1, t1 |-> "20.5"]] }

\* device lists of up to n devices
DeviceLists(n) == UNION { [1..k -> DeviceSamples] : k \in 0..n }

\* parsed JSON bodies that are dicts, with up to n devices
DictBodies(n) ==
    { EmptyDict,
      [success |-> FALSE],
      [success |-> TRUE] }
    \cup { [devices |-> ds] : ds \in [1..1 -> DeviceSamples] }
    \cup { [success |-> TRUE, devices |-> ds] : ds \in DeviceLists(n) }

\* datetime.fromtimestamp(unix_ts, tz=timezone.utc)
ConvertRaises(unix_ts) == unix_ts > MaxTimestamp
convert_timestamp(unix_ts) == [sec |-> unix_ts, tz |-> "UTC"]

\* device.get("measurement", {})
MeasurementOf(device) ==
    IF Has(device, "measurement") THEN device.measurement ELSE EmptyDict

\* line 164: dev_id is None or ts_unix is None
MissingIdOrTs(device) ==
    ~Has(device, "deviceid") \/ ~Has(MeasurementOf(device), "ts")

\* line 170: t1 is None and t2 is None
MissingTemps(device) ==
    ~Has(MeasurementOf(device), "t1") /\ ~Has(MeasurementOf(device), "t2")

\* the arguments of insert_into_db(timestamp, dev_id, t1, t2) as a row
RowOf(device) ==
    LET m == MeasurementOf(device) IN
    [ time      |-> convert_timestamp(m.ts),
      sensor_id |-> device.deviceid,
      t1        |-> IF Has(m, "t1") THEN m.t1 ELSE NULL,
      t2        |-> IF Has(m, "t2") THEN m.t2 ELSE NULL ]

\* the state of the stored handle when insert_into_db is called
HandleAtEntry ==
    CASE ~dbUp -> "any"
      [] conn = "closed" -> "closed"
      [] conn = "open" /\ ~session -> "dead"
      [] OTHER -> "any"

----------------------------------------------------------------------------
\* The fetch daemon: src/fetcher/main.py

\* what requests.post(...) and resp.json() can produce, with up to n devices
Responses(n) ==
    { [kind |-> "exception"], [kind |-> "non200"], [kind |-> "nondict"] }
    \cup { [kind |-> "malformed", caught |-> c] : c \in BOOLEAN }
    \cup { [kind |-> "dict", body |-> b] : b \in DictBodies(n) }

HttpDurations == {0, HTTP_TIMEOUT_SECONDS}

\* line 116: one requests.post for the whole list, deviceids joined by commas
RequestsPerSensor(ids) == Len(ids)
RequestsFor(ids) == 1

\* _fetch_latest_measurements(sensor_ids) for the response resp:
\* "none" = returns None, "raise" = an exception leaves the function,
\* "nondict" = JSON that is not an object, "dict" = a JSON object
fetch_latest_measurements(ids, resp) ==
    IF ids = <<>> THEN [kind |-> "none", requests |-> 0]
    ELSE CASE resp.kind \in {"exception", "non200"} ->
                [kind |-> "none", requests |-> RequestsFor(ids)]
           [] resp.kind = "malformed" ->
                \* resp.json() raises; whether that is a RequestException
                \* depends on the installed requests version
                [kind |-> IF resp.caught THEN "none" ELSE "raise", requests |-> RequestsFor(ids)]
           [] resp.kind = "nondict" -> [kind |-> "nondict", requests |-> RequestsFor(ids)]
           [] OTHER -> [kind |-> "dict", body |-> resp.body, requests |-> RequestsFor(ids)]

\* what the cycle got from the API, for the history of the cycle:
\*   "skipped":   no request was made
\*   "failed":    the request raised, or it was answered with another status
\*                than 200 or with a body that is not a JSON object
\*   "refused":   a JSON object whose `success` is absent or false
\*   "nodevices": success without devices
\*   "devices":   success with devices
Fetched(ids, resp) ==
    CASE ids = <<>> -> "skipped"
      [] resp.kind # "dict" -> "failed"
      [] ~Has(resp.body, "success") -> "refused"
      [] ~resp.body.success -> "refused"
      [] ~Has(resp.body, "devices") -> "nodevices"
      [] resp.body.devices = <<>> -> "nodevices"
      [] OTHER -> "devices"

\* main, lines 202-205: an exception leaving fetch_data is caught and logged
AfterCycleExceptionUncaught == "crashed"
AfterCycleException == "finish"

\* fetch_data, lines 175-176: the exception is logged, the loop goes on
AfterDeviceExceptionAbort(i) == Len(devices) + 1
AfterDeviceExceptionStay(i) == i
AfterDeviceException(i) == i + 1

\* main, line 208
SleepForUnclamped(e) == FETCH_INTERVAL_SECONDS - e
SleepFor(e) == IF FETCH_INTERVAL_SECONDS - e > 0 THEN FETCH_INTERVAL_SECONDS - e ELSE 0

\* get_db_connection, line 41: _conn is not None and not _conn.closed
UsableIgnoringClosed(c) == c # "None"
Usable(c) == c = "open"

\* insert_into_db: the statement is tried, and on a connectivity error retried once
SingleInsertAttempt == 2 - 1
ThreeInsertAttempts == 2 + 1
MaxInsertAttempts == 2

\* main, lines 198-200
cycle_start ==
    /\ pc = "idle"
    /\ pc' = "fetch"
    /\ now' = 0
    \* elapsed and sleep_for of the previous iteration are dead here
    /\ elapsed' = 0
    /\ sleep_for' = 0
    /\ cycle' = [status |-> "running", requests |-> 0, fetched |-> "none"]
    /\ UNCHANGED <<dbUp, measurements, sensor_ids, d_creds, conn, session,
                   devices, idx, inserted, attempt, call, raisedAt, others>>

\* fetch_data, lines 144-158, with _fetch_latest_measurements, lines 105-127,
\* for an API whose responses carry up to n devices
FetchData(n) ==
    /\ pc = "fetch"
    /\ \E resp \in Responses(n), d \in HttpDurations :
         LET data == fetch_latest_measurements(sensor_ids, resp)
             devs == IF data.kind = "dict" /\ Has(data.body, "devices")
                     THEN data.body.devices ELSE <<>>
             ok   == /\ data.kind = "dict"
                     /\ data.body # EmptyDict
                     /\ Has(data.body, "success")
                     /\ data.body.success
                     /\ devs # <<>>
             raises == data.kind \in {"raise", "nondict"}
         IN  /\ now' = IF data.requests > 0 THEN Tick(now, d) ELSE now
             /\ IF ok
                THEN /\ pc' = "loop"
                     /\ devices' = devs
                     /\ idx' = 1
                     /\ cycle' = [cycle EXCEPT !.requests = data.requests,
                                               !.fetched = "devices"]
                ELSE /\ pc' = IF raises THEN AfterCycleException ELSE "finish"
                     /\ cycle' = [status |-> IF raises THEN "raised" ELSE "returned",
                                  requests |-> data.requests,
                                  fetched |-> Fetched(sensor_ids, resp)]
                     /\ UNCHANGED <<devices, idx>>
    /\ inserted' = 0
    /\ raisedAt' = {}
    /\ UNCHANGED <<dbUp, measurements, sensor_ids, d_creds, elapsed, sleep_for, conn, session,
                   attempt, call, others>>

fetch_data == FetchData(MaxDevices)

\* the same against an API that answers with short device lists
fetch_data_short == FetchData(ShortDevices)

\* fetch_data, lines 159-178: one turn of the for loop up to the call of
\* insert_into_db, or the end of the loop
for_device ==
    /\ pc = "loop"
    /\ IF idx > Len(devices)
       THEN /\ pc' = "finish"
            /\ cycle' = [cycle EXCEPT !.status = "returned"]
            /\ call' = NoCall
            /\ UNCHANGED <<idx, attempt, raisedAt>>
       ELSE LET device == devices[idx] IN
            IF MissingIdOrTs(device)
            THEN /\ idx' = idx + 1
                 /\ call' = NoCall
                 /\ UNCHANGED <<pc, attempt, raisedAt, cycle>>
            ELSE IF ConvertRaises(MeasurementOf(device).ts)
            THEN /\ idx' = AfterDeviceException(idx)
                 /\ raisedAt' = raisedAt \cup {idx}
                 /\ call' = NoCall
                 /\ UNCHANGED <<pc, attempt, cycle>>
            ELSE IF MissingTemps(device)
            THEN /\ idx' = idx + 1
                 /\ call' = NoCall
                 /\ UNCHANGED <<pc, attempt, raisedAt, cycle>>
            ELSE /\ pc' = "get"
                 /\ attempt' = 1
                 /\ call' = [NoCall EXCEPT !.status = "running", !.handle = HandleAtEntry]
                 /\ UNCHANGED <<idx, raisedAt, cycle>>
    /\ UNCHANGED <<dbUp, measurements, sensor_ids, d_creds, now, elapsed, sleep_for, conn, session,
                   devices, inserted, others>>

\* get_db_connection, lines 41-42: reuse the stored handle if it is usable
get_db_connection ==
    /\ pc = "get"
    /\ pc' = IF Usable(conn) THEN "exec" ELSE "connect"
    /\ UNCHANGED <<dbUp, measurements, sensor_ids, d_creds, now, elapsed, sleep_for, conn, session,
                   devices, idx, inserted, attempt, call, raisedAt, cycle, others>>

\* get_db_connection, lines 44-60: one turn of the while loop
connect ==
    /\ pc = "connect"
    /\ IF dbUp
       THEN /\ conn' = "open"
            /\ session' = TRUE
            /\ pc' = "exec"
            /\ now' = now
       ELSE \* OperationalError: time.sleep(5), next turn
            /\ now' = Tick(now, RETRY_DELAY_SECONDS)
            /\ UNCHANGED <<conn, session, pc>>
    /\ UNCHANGED <<dbUp, measurements, sensor_ids, d_creds, elapsed, sleep_for,
                   devices, idx, inserted, attempt, call, raisedAt, cycle, others>>

\* insert_into_db, lines 87-102: conn.cursor() and cur.execute(sql, ...)
execute ==
    /\ pc = "exec"
    /\ \/ \* InterfaceError (handle closed) or OperationalError (session lost)
          /\ conn # "open" \/ ~session
          /\ IF attempt < MaxInsertAttempts
             THEN \* lines 89-100: close and discard the handle, retry once
                  /\ conn' = "None"
                  /\ attempt' = attempt + 1
                  /\ pc' = "get"
                  /\ call' = [call EXCEPT !.execs = @ + 1]
                  /\ UNCHANGED <<idx, raisedAt>>
             ELSE \* the error leaves insert_into_db; the driver may have
                  \* marked the stored handle closed
                  /\ conn' \in {conn, "closed"}
                  /\ attempt' = 0
                  /\ pc' = "loop"
                  /\ idx' = AfterDeviceException(idx)
                  /\ raisedAt' = raisedAt \cup {idx}
                  /\ call' = [call EXCEPT !.execs = @ + 1, !.status = "raised"]
          /\ session' = FALSE
          /\ UNCHANGED <<measurements, inserted>>
       \/ \* the statement runs
          /\ conn = "open" /\ session
          /\ LET row == RowOf(devices[idx])
                 res == InsertOnConflictDoNothing(measurements, row)
             IN  /\ measurements' = res.rows
                 /\ IF res.error
                    THEN \* not connectivity-class: leaves insert_into_db
                         /\ idx' = AfterDeviceException(idx)
                         /\ raisedAt' = raisedAt \cup {idx}
                         /\ UNCHANGED inserted
                    ELSE /\ idx' = idx + 1
                         /\ inserted' = inserted + 1
                         /\ UNCHANGED raisedAt
                 /\ call' = [call EXCEPT
                               !.execs = @ + 1,
                               !.status = IF res.error THEN "raised" ELSE "returned",
                               !.existed = HasKey(measurements, row)]
          /\ attempt' = 0
          /\ pc' = "loop"
          /\ UNCHANGED <<conn, session>>
    /\ UNCHANGED <<dbUp, sensor_ids, d_creds, now, elapsed, sleep_for, devices, cycle, others>>

\* main, lines 207-209
cycle_finish ==
    /\ pc = "finish"
    /\ elapsed' = now
    /\ sleep_for' = SleepFor(now)
    /\ pc' = "sleeping"
    /\ devices' = <<>>
    /\ idx' = 0
    /\ inserted' = 0
    /\ raisedAt' = {}
    /\ UNCHANGED <<dbUp, measurements, sensor_ids, d_creds, now, conn, session, attempt,
                   call, cycle, others>>

\* main, line 210: time.sleep(sleep_for)
sleep ==
    /\ pc = "sleeping"
    /\ now' = Tick(now, sleep_for)
    /\ pc' = "idle"
    /\ UNCHANGED <<dbUp, measurements, sensor_ids, d_creds, elapsed, sleep_for, conn, session,
                   devices, idx, inserted, attempt, call, raisedAt, cycle, others>>

Daemon ==
    \/ cycle_start
    \/ fetch_data
    \/ for_device
    \/ get_db_connection
    \/ connect
    \/ execute
    \/ cycle_finish
    \/ sleep

\* the daemon against an API that answers with short device lists
DaemonShort ==
    \/ cycle_start
    \/ fetch_data_short
    \/ for_device
    \/ get_db_connection
    \/ connect
    \/ execute
    \/ cycle_finish
    \/ sleep

Environment ==
    \/ StoreDown
    \/ StoreUp
    \/ DropSession
    \/ ForceClose

----------------------------------------------------------------------------
\* The staleness probe: src/fetcher/healthcheck.py

THRESHOLD_MINUTES == 30

\* timedelta(minutes=THRESHOLD_MINUTES), in seconds
Threshold == THRESHOLD_MINUTES * 60

NoExit == 0 - 1

\* line 83: age <= threshold
IsRecentStrict(age) == age < Threshold
IsRecent(age) == age <= Threshold

\* line 58: `if not sensors`
NeverVacuous(sensors) == FALSE
NothingToCheck(sensors) == sensors = <<>>

\* SELECT MAX(time) FROM measurements WHERE sensor_id = %s
\* the set holding the result, empty when the result is NULL
MaxTimeOf(table, sensor) ==
    { r.time : r \in { q \in BagToSet(table) :
                         /\ q.sensor_id = sensor
                         /\ \A o \in BagToSet(table) :
                                o.sensor_id = sensor => o.time.sec <= q.time.sec } }

\* lines 79-80: a naive datetime is taken as UTC
AsUtc(ts) == IF ts.tz = "naive" THEN [ts EXCEPT !.tz = "UTC"] ELSE ts

\* main, lines 57-59
probe_main ==
    /\ h_pc = "start"
    /\ IF NothingToCheck(h_sensors)
       THEN h_pc' = "done" /\ h_exit' = 0
       ELSE h_pc' = "connect" /\ h_exit' = h_exit
    /\ UNCHANGED <<h_sensors, h_creds, h_now, h_session, h_i, recent_count, h_hist>>
    /\ UNCHANGED <<dbUp, measurements, daemonVars, syncVars, readerVars>>

\* connect_db, lines 41-54
connect_db ==
    /\ h_pc = "connect"
    /\ IF ~h_creds
       THEN \* fail(...): sys.exit(1)
            /\ h_pc' = "done"
            /\ h_exit' = 1
            /\ UNCHANGED <<h_session, h_i, h_hist>>
       ELSE IF dbUp
       THEN /\ h_session' = TRUE
            /\ h_i' = 1
            /\ h_pc' = "query"
            /\ h_hist' = [h_hist EXCEPT !.connects = @ + 1]
            /\ UNCHANGED h_exit
       ELSE \* OperationalError: fail(...)
            /\ h_pc' = "done"
            /\ h_exit' = 1
            /\ h_hist' = [h_hist EXCEPT !.connects = @ + 1, !.reachable = FALSE]
            /\ UNCHANGED <<h_session, h_i>>
    /\ UNCHANGED <<h_sensors, h_creds, h_now, recent_count>>
    /\ UNCHANGED <<dbUp, measurements, daemonVars, syncVars, readerVars>>

\* main, lines 68-87: one turn of the for loop
probe_query ==
    /\ h_pc = "query"
    /\ h_i <= Len(h_sensors)
    /\ IF ~h_session
       THEN \* cur.execute raises; finally: conn.close(); the interpreter
            \* ends with the traceback and status 1
            /\ h_pc' = "done"
            /\ h_exit' = 1
            /\ h_hist' = [h_hist EXCEPT !.reachable = FALSE]
            /\ UNCHANGED <<h_i, recent_count, h_session>>
       ELSE LET last_ts == MaxTimeOf(measurements, h_sensors[h_i]) IN
            /\ recent_count' =
                 IF \E ts \in last_ts : IsRecent(h_now - AsUtc(ts).sec)
                 THEN recent_count + 1
                 ELSE recent_count
            /\ h_i' = h_i + 1
            /\ h_hist' = [h_hist EXCEPT !.queries = @ + 1]
            /\ UNCHANGED <<h_pc, h_exit, h_session>>
    /\ UNCHANGED <<h_sensors, h_creds, h_now>>
    /\ UNCHANGED <<dbUp, measurements, daemonVars, syncVars, readerVars>>

\* main, lines 89-97
probe_verdict ==
    /\ h_pc = "query"
    /\ h_i > Len(h_sensors)
    /\ h_pc' = "done"
    /\ h_exit' = IF recent_count > 0 THEN 0 ELSE 1
    /\ h_session' = FALSE
    /\ UNCHANGED <<h_sensors, h_creds, h_now, h_i, recent_count, h_hist>>
    /\ UNCHANGED <<dbUp, measurements, daemonVars, syncVars, readerVars>>

Probe ==
    \/ probe_main
    \/ connect_db
    \/ probe_query
    \/ probe_verdict

----------------------------------------------------------------------------
\* The association syncer: src/room_sync/sync.py

\* get_db_connection(retries=12, wait_seconds=5)
SyncRetriesOneLess == 12 - 1
SYNC_RETRIES == 12
\* execute_values(..., page_size=100)
PAGE_SIZE == 100
\* longest association list of a config file
MaxEntries == 2

\* items of the `associations` list of a config file
ItemSamples ==
    { [sensor_id |-> "A", room_id |-> "living-room"],
      [sensor_id |-> "B", room_id |-> "kitchen", start_date |-> "2024-01-01"],
      [sensor_id |-> "A"],
      [room_id |-> "kitchen"],
      [notmapping |-> TRUE] }

ItemLists == UNION { [1..n -> ItemSamples] : n \in 0..MaxEntries }

\* what the config path can hold
ConfigSamples ==
    { [kind |-> "missing"], [kind |-> "unparsable"], [kind |-> "empty"],
      [kind |-> "doc", doc |-> [rooms |-> <<>>]] }
    \cup { [kind |-> "doc", doc |-> [associations |-> l]] : l \in ItemLists }

\* load_config, lines 63-68
EntryOf(a) ==
    [ sensor_id  |-> IF Has(a, "sensor_id") THEN a.sensor_id ELSE NULL,
      room_id    |-> IF Has(a, "room_id") THEN a.room_id ELSE NULL,
      start_date |-> IF Has(a, "start_date") THEN a.start_date ELSE NULL,
      end_date   |-> IF Has(a, "end_date") THEN a.end_date ELSE NULL ]

\* load_config, lines 55-62
ValidItemAnyRoom(a) == ~Has(a, "notmapping") /\ Has(a, "sensor_id")
ValidItem(a) == ~Has(a, "notmapping") /\ Has(a, "sensor_id") /\ Has(a, "room_id")

\* load_config(path): ok = it returned, with entries
load_config(config) ==
    CASE config.kind \in {"missing", "unparsable"} ->
           \* open() or yaml.safe_load raises
           [ok |-> FALSE, entries |-> <<>>]
      [] config.kind = "empty" -> [ok |-> TRUE, entries |-> <<>>]
      [] OTHER ->
           IF ~Has(config.doc, "associations")
           THEN [ok |-> FALSE, entries |-> <<>>]
           ELSE LET l == config.doc.associations IN
                IF \A i \in 1..Len(l) : ValidItem(l[i])
                THEN [ok |-> TRUE, entries |-> [i \in 1..Len(l) |-> EntryOf(l[i])]]
                ELSE [ok |-> FALSE, entries |-> <<>>]

\* get_db_connection, line 82: conn.autocommit = False
AutocommitOn == TRUE
Autocommit == FALSE

\* sync_to_db, line 115: TRUNCATE room_assoc
KeepRows(rows) == rows
Truncate(rows) == <<>>

\* sync_to_db, lines 119-121
Records(es) == es

\* main, line 148: not os.path.exists(args.config)
ConfigAbsentUnchecked(config) == FALSE
ConfigAbsent(config) == config.kind = "missing"

\* main, lines 141-161
sync_main ==
    /\ s_pc = "start"
    /\ IF ~s_creds
       THEN s_pc' = "done" /\ s_exit' = 2 /\ UNCHANGED <<entries, s_attempt>>
       ELSE IF ConfigAbsent(s_config)
       THEN s_pc' = "done" /\ s_exit' = 0 /\ UNCHANGED <<entries, s_attempt>>
       ELSE IF ~load_config(s_config).ok
       THEN s_pc' = "done" /\ s_exit' = 3 /\ UNCHANGED <<entries, s_attempt>>
       ELSE /\ entries' = load_config(s_config).entries
            /\ s_pc' = "connect"
            /\ s_attempt' = 1
            /\ UNCHANGED s_exit
    /\ UNCHANGED <<room_assoc, s_creds, s_config, s_session, txn, s_hist>>
    /\ UNCHANGED <<dbUp, measurements, daemonVars, probeVars, readerVars>>

\* get_db_connection, lines 75-92: one turn of the for loop
sync_connect ==
    /\ s_pc = "connect"
    /\ IF dbUp
       THEN /\ s_session' = TRUE
            /\ txn' = room_assoc
            /\ s_pc' = "ddl"
            /\ s_hist' = [s_hist EXCEPT !.pre = room_assoc, !.failed = "no",
                                        !.tried = TRUE]
            /\ s_attempt' = 0
            /\ UNCHANGED s_exit
       ELSE IF s_attempt < SYNC_RETRIES
       THEN \* time.sleep(wait_seconds), next turn
            /\ s_attempt' = s_attempt + 1
            /\ s_hist' = [s_hist EXCEPT !.tried = TRUE]
            /\ UNCHANGED <<s_session, txn, s_pc, s_exit>>
       ELSE \* raise last_exc: main returns 4
            /\ s_pc' = "done"
            /\ s_exit' = 4
            /\ s_hist' = [s_hist EXCEPT !.failed = "connect", !.tried = TRUE]
            /\ UNCHANGED <<s_attempt, s_session, txn>>
    /\ UNCHANGED <<room_assoc, s_creds, s_config, entries>>
    /\ UNCHANGED <<dbUp, measurements, daemonVars, probeVars, readerVars>>

\* a statement of the syncer's connection writes rows: into the transaction,
\* or straight into the table when the connection autocommits
SyncWrite(rows) ==
    IF Autocommit
    THEN room_assoc' = rows /\ txn' = rows
    ELSE txn' = rows /\ UNCHANGED room_assoc

\* sync_to_db, lines 133-138, reached from the step named `step`:
\* conn.rollback(), the exception goes to main, conn.close(); main returns 4
sync_failed(step) ==
    /\ s_pc' = "done"
    /\ s_exit' = 4
    /\ s_session' = FALSE
    /\ txn' = <<>>
    /\ s_hist' = [s_hist EXCEPT !.failed = step]
    /\ UNCHANGED <<room_assoc, s_creds, s_config, entries, s_attempt>>

\* sync_to_db, lines 99-112: CREATE TABLE / CREATE INDEX IF NOT EXISTS
sync_ddl ==
    /\ s_pc = "ddl"
    /\ \/ /\ s_session
          /\ s_pc' = "truncate"
          /\ UNCHANGED <<room_assoc, s_creds, s_config, entries, s_attempt, s_session,
                         txn, s_exit, s_hist>>
       \/ sync_failed("ddl")
    /\ UNCHANGED <<dbUp, measurements, daemonVars, probeVars, readerVars>>

\* sync_to_db, lines 114-115
sync_truncate ==
    /\ s_pc = "truncate"
    /\ \/ /\ s_session
          /\ SyncWrite(Truncate(txn))
          /\ s_pc' = "insert"
          /\ UNCHANGED <<s_creds, s_config, entries, s_attempt, s_session, s_exit, s_hist>>
       \/ sync_failed("truncate")
    /\ UNCHANGED <<dbUp, measurements, daemonVars, probeVars, readerVars>>

\* sync_to_db, lines 117-130: execute_values sends the records in pages of
\* PAGE_SIZE rows, one INSERT statement per page
sync_insert ==
    /\ s_pc = "insert"
    /\ \/ /\ s_session
          /\ SyncWrite(txn \o Records(entries))
          /\ s_pc' = "commit"
          /\ UNCHANGED <<s_creds, s_config, entries, s_attempt, s_session, s_exit, s_hist>>
       \/ \* a page fails after the pages before it were inserted
          /\ entries # <<>>
          /\ \E k \in 0..Len(entries) :
               /\ k % PAGE_SIZE = 0
               /\ k < Len(entries)
               /\ IF Autocommit /\ s_session
                  THEN room_assoc' = room_assoc \o SubSeq(Records(entries), 1, k)
                  ELSE UNCHANGED room_assoc
          /\ s_pc' = "done"
          /\ s_exit' = 4
          /\ s_session' = FALSE
          /\ txn' = <<>>
          /\ s_hist' = [s_hist EXCEPT !.failed = "insert"]
          /\ UNCHANGED <<s_creds, s_config, entries, s_attempt>>
    /\ UNCHANGED <<dbUp, measurements, daemonVars, probeVars, readerVars>>

\* sync_to_db, lines 131-132 and 137-138
sync_commit ==
    /\ s_pc = "commit"
    /\ \/ /\ s_session
          /\ room_assoc' = txn
          /\ txn' = <<>>
          /\ s_session' = FALSE
          /\ s_pc' = "done"
          /\ s_exit' = 0
          /\ s_hist' = [s_hist EXCEPT !.synced = TRUE, !.last = entries]
          /\ UNCHANGED <<s_creds, s_config, entries, s_attempt>>
       \/ sync_failed("commit")
    /\ UNCHANGED <<dbUp, measurements, daemonVars, probeVars, readerVars>>

\* the syncer's process is gone; what it read from its environment goes with it
sync_exit ==
    /\ s_pc = "done"
    /\ s_pc' = "off"
    /\ s_exit' = NoExit
    /\ s_creds' = FALSE
    /\ s_config' = [kind |-> "missing"]
    /\ entries' = <<>>
    /\ s_attempt' = 0
    /\ s_hist' = [s_hist EXCEPT !.pre = <<>>, !.failed = "no", !.tried = FALSE]
    /\ UNCHANGED <<room_assoc, s_session, txn>>
    /\ UNCHANGED <<dbUp, measurements, daemonVars, probeVars, readerVars>>

\* the syncer is run (again), with the environment and config file of that run
sync_run ==
    /\ s_pc = "off"
    /\ s_pc' = "start"
    /\ s_creds' \in BOOLEAN
    /\ s_config' \in ConfigSamples
    /\ s_hist' = [s_hist EXCEPT !.pre = room_assoc]
    /\ UNCHANGED <<room_assoc, entries, s_attempt, s_session, txn, s_exit>>
    /\ UNCHANGED <<dbUp, measurements, daemonVars, probeVars, readerVars>>

\* sync_to_db, lines 115-131: TRUNCATE takes an ACCESS EXCLUSIVE lock on
\* room_assoc, which the syncer's transaction holds until it commits, rolls
\* back or loses its session; a connection that autocommits holds it for the
\* statement only
TableLocked == ~Autocommit /\ s_session /\ s_pc \in {"insert", "commit"}

\* a reader sends SELECT ... FROM room_assoc, as one statement of its own
\* (READ COMMITTED): the statement waits for the table's lock
read_begin ==
    /\ r_pc = "idle"
    /\ dbUp
    /\ r_pc' = "waiting"
    /\ r_rows' = [NoRows EXCEPT !.blocked = TableLocked]
    /\ UNCHANGED <<dbUp, measurements, daemonVars, probeVars, syncVars>>

\* the statement gets the lock and returns the committed rows
read_return ==
    /\ r_pc = "waiting"
    /\ dbUp
    /\ ~TableLocked
    /\ r_pc' = "idle"
    /\ r_rows' = [r_rows EXCEPT !.ok = TRUE, !.rows = room_assoc]
    /\ UNCHANGED <<dbUp, measurements, daemonVars, probeVars, syncVars>>

Reader ==
    \/ read_begin
    \/ read_return

Syncer ==
    \/ sync_main
    \/ sync_connect
    \/ sync_ddl
    \/ sync_truncate
    \/ sync_insert
    \/ sync_commit
    \/ sync_exit
    \/ sync_run

----------------------------------------------------------------------------
\* Specifications

DaemonInit ==
    /\ pc = "idle"
    /\ sensor_ids \in {<<>>, <<"A", "B">>}
    /\ now = 0
    /\ elapsed = 0
    /\ sleep_for = 0
    /\ conn = "None"
    /\ session = FALSE
    /\ devices = <<>>
    /\ idx = 0
    /\ inserted = 0
    /\ attempt = 0
    /\ call = NoCall
    /\ raisedAt = {}
    /\ cycle = [status |-> "none", requests |-> 0, fetched |-> "none"]

\* no reader is querying room_assoc
ReaderOff ==
    /\ r_pc = "off"
    /\ r_rows = NoRows

\* the probe has not been started
ProbeOff ==
    /\ h_pc = "off"
    /\ h_sensors = <<>>
    /\ h_creds = FALSE
    /\ h_now = 0
    /\ h_session = FALSE
    /\ h_i = 0
    /\ recent_count = 0
    /\ h_exit = NoExit
    /\ h_hist = [connects |-> 0, queries |-> 0, reachable |-> TRUE]

\* the syncer has not been started
SyncerOff ==
    /\ room_assoc = <<>>
    /\ s_pc = "off"
    /\ s_creds = FALSE
    /\ s_config = [kind |-> "missing"]
    /\ entries = <<>>
    /\ s_attempt = 0
    /\ s_session = FALSE
    /\ txn = <<>>
    /\ s_exit = NoExit
    /\ s_hist = [pre |-> <<>>, failed |-> "no", synced |-> FALSE, last |-> <<>>,
                 tried |-> FALSE]

\* the fetch daemon against a store that comes and goes
Init ==
    /\ dbUp \in BOOLEAN
    /\ measurements = EmptyBag
    /\ DaemonInit
    /\ ReaderOff
    /\ d_creds = TRUE
    /\ ProbeOff
    /\ SyncerOff

Next == Daemon \/ Environment

Spec == Init /\ [][Next]_vars

\* the same, started with or without the credentials in its environment:
\* lines 19-21 fall back to the defaults "sensor_data", "sensor_user" and
\* "sensor_password", which the store is taken to accept
InitLive ==
    /\ dbUp \in BOOLEAN
    /\ measurements = EmptyBag
    /\ DaemonInit
    /\ ReaderOff
    /\ d_creds \in BOOLEAN
    /\ ProbeOff
    /\ SyncerOff

NextLive == DaemonShort \/ Environment

\* the daemon is a running process: it keeps taking steps
SpecLive == InitLive /\ [][NextLive]_vars /\ WF_vars(DaemonShort)

\* rows the probe can find in measurements
ProbeTimes == { Threshold + 1, Threshold + 2, 2 * Threshold + 1 }
ProbeNow == 2 * Threshold + 2

ProbeTables ==
    { SetToBag({ [time |-> [sec |-> k[2], tz |-> tz], sensor_id |-> k[1],
                  t1 |-> "20.5", t2 |-> NULL] : k \in ks }) :
        ks \in SUBSET ({"A", "B"} \X ProbeTimes), tz \in {"UTC", "naive"} }

\* one run of the staleness probe
InitProbe ==
    /\ dbUp \in BOOLEAN
    /\ measurements \in ProbeTables
    /\ DaemonInit
    /\ ReaderOff
    /\ sensor_ids = <<>>
    /\ d_creds = TRUE
    /\ SyncerOff
    /\ h_pc = "start"
    /\ h_sensors \in {<<>>, <<"A">>, <<"A", "B">>, <<"C", "B">>}
    /\ h_creds \in BOOLEAN
    /\ h_now = ProbeNow
    /\ h_session = FALSE
    /\ h_i = 0
    /\ recent_count = 0
    /\ h_exit = NoExit
    /\ h_hist = [connects |-> 0, queries |-> 0, reachable |-> TRUE]

NextProbe == Probe \/ StoreDown \/ StoreUp

SpecProbe == InitProbe /\ [][NextProbe]_vars

\* rows of room_assoc left by earlier deployments
OldRows ==
    { <<>>,
      << [sensor_id |-> "A", room_id |-> "attic", start_date |-> NULL, end_date |-> NULL] >> }

\* runs of the association syncer, one after the other
InitSync ==
    /\ dbUp \in BOOLEAN
    /\ measurements = EmptyBag
    /\ DaemonInit
    /\ ReaderOff
    /\ sensor_ids = <<>>
    /\ d_creds = TRUE
    /\ ProbeOff
    /\ room_assoc \in OldRows
    /\ s_pc = "off"
    /\ s_creds = FALSE
    /\ s_config = [kind |-> "missing"]
    /\ entries = <<>>
    /\ s_attempt = 0
    /\ s_session = FALSE
    /\ txn = <<>>
    /\ s_exit = NoExit
    /\ s_hist = [pre |-> <<>>, failed |-> "no", synced |-> FALSE, last |-> <<>>,
                 tried |-> FALSE]

NextSync == Syncer \/ StoreDown \/ StoreUp

SpecSync == InitSync /\ [][NextSync]_vars

\* one run of the staleness probe next to runs of the association syncer
InitTools ==
    /\ dbUp \in BOOLEAN
    /\ measurements \in
          { EmptyBag,
            SetToBag({ [time |-> [sec |-> ProbeNow, tz |-> "UTC"], sensor_id |-> "A",
                        t1 |-> "20.5", t2 |-> NULL] }) }
    /\ DaemonInit
    /\ ReaderOff
    /\ sensor_ids = <<>>
    /\ d_creds = TRUE
    /\ h_pc = "start"
    /\ h_sensors \in {<<>>, <<"A", "B">>}
    /\ h_creds \in BOOLEAN
    /\ h_now = ProbeNow
    /\ h_session = FALSE
    /\ h_i = 0
    /\ recent_count = 0
    /\ h_exit = NoExit
    /\ h_hist = [connects |-> 0, queries |-> 0, reachable |-> TRUE]
    /\ room_assoc \in OldRows
    /\ s_pc = "off"
    /\ s_creds = FALSE
    /\ s_config = [kind |-> "missing"]
    /\ entries = <<>>
    /\ s_attempt = 0
    /\ s_session = FALSE
    /\ txn = <<>>
    /\ s_exit = NoExit
    /\ s_hist = [pre |-> <<>>, failed |-> "no", synced |-> FALSE, last |-> <<>>,
                 tried |-> FALSE]

NextTools == Probe \/ Syncer \/ StoreDown \/ StoreUp

SpecTools == InitTools /\ [][NextTools]_vars

\* runs of the association syncer next to a reader of room_assoc
InitReader ==
    /\ dbUp \in BOOLEAN
    /\ measurements = EmptyBag
    /\ DaemonInit
    /\ sensor_ids = <<>>
    /\ d_creds = TRUE
    /\ ProbeOff
    /\ SyncerOff
    /\ r_pc = "idle"
    /\ r_rows = NoRows

NextReader == Syncer \/ Reader \/ StoreDown \/ StoreUp

SpecReader == InitReader /\ [][NextReader]_vars

----------------------------------------------------------------------------
\* Properties

\* the insert_into_db call of the daemon has just ended
CallEnded == pc = "loop" /\ call.status \in {"returned", "raised"}

\* the device would be inserted if nothing raised
Insertable(device) ==
    /\ ~MissingIdOrTs(device)
    /\ ~ConvertRaises(MeasurementOf(device).ts)
    /\ ~MissingTemps(device)

\* every (sensor_id, time) pair is stored at most once
UniqueKeys ==
    \A r \in BagToSet(measurements) :
        /\ CopiesIn(r, measurements) = 1
        /\ \A q \in BagToSet(measurements) : SameKey(r, q) => r = q

\* a step in which the INSERT ran for a pair that was already stored
\* returns without error and leaves the table as it was
DuplicateIsNoOp ==
    (call.status = "running" /\ call'.status # "running" /\ call'.existed)
        => (measurements' = measurements /\ call'.status = "returned")

\* C1: after any sequence of insert_into_db calls the measurements table holds
\* at most one row per (sensor_id, time); an insert whose pair already exists
\* raises no error and leaves the table, and the stored row, unchanged.
C1_IdempotentInsert == []UniqueKeys /\ [][DuplicateIsNoOp]_vars

\* an insert has just met a stored row with its pair but other temperatures
C1_Witness ==
    /\ CallEnded
    /\ call.existed
    /\ call.status = "returned"
    /\ \E r \in BagToSet(measurements) :
           SameKey(r, RowOf(devices[idx - 1])) /\ r # RowOf(devices[idx - 1])

\* C2: when sync_to_db fails at any step after the connection was obtained
\* (schema creation, truncate, bulk insert, commit), the transaction is gone and
\* room_assoc holds exactly the rows it held before the sync started.
C2_FailedSyncRestores ==
    (s_pc = "done" /\ s_exit = 4 /\ s_hist.failed \in {"ddl", "truncate", "insert", "commit"})
        => (room_assoc = s_hist.pre /\ txn = <<>> /\ ~s_session)

\* the bulk insert failed after the truncate, over a table that held rows
C2_Witness ==
    /\ s_pc = "done"
    /\ s_exit = 4
    /\ s_hist.failed = "insert"
    /\ s_hist.pre # <<>>
    /\ room_assoc = s_hist.pre

\* C3: after any sequence of sync runs, successful or failed, room_assoc equals
\* exactly the entry list of the most recent successful sync; a successful sync
\* with zero entries leaves the table empty.
C3_TableIsLastSync ==
    s_hist.synced => room_assoc = Records(s_hist.last)

\* a sync with zero entries emptied a table that held rows, and a later run failed
C3_Witness ==
    /\ s_hist.synced
    /\ s_hist.last = <<>>
    /\ room_assoc = <<>>
    /\ s_pc = "done"
    /\ s_exit = 4
    /\ s_hist.failed = "insert"

\* the sensor has a latest reading whose age is at most 30 minutes
HasRecentReading(sensor) ==
    \E r \in BagToSet(measurements) :
        /\ r.sensor_id = sensor
        /\ \A o \in BagToSet(measurements) :
               o.sensor_id = sensor => o.time.sec <= r.time.sec
        /\ h_now - r.time.sec <= 60 * THRESHOLD_MINUTES

\* the probe ran to its verdict against a reachable store
ProbeRanThrough ==
    /\ h_pc = "done"
    /\ h_sensors # <<>>
    /\ h_creds
    /\ h_hist.reachable

C5_VacuousHealth ==
    (h_pc = "done" /\ h_sensors = <<>>) =>
        (h_exit = 0 /\ h_hist.connects = 0 /\ h_hist.queries = 0 /\ ~h_session)

\* no sensors, no credentials, store down: still healthy
C5_Witness ==
    /\ h_pc = "done"
    /\ h_sensors = <<>>
    /\ ~h_creds
    /\ ~dbUp
    /\ h_exit = 0

\* the devices of the current response that are insertable and whose insert did
\* not raise
Delivered == { i \in 1..Len(devices) : Insertable(devices[i]) /\ i \notin raisedAt }

\* C6: within one cycle every device is processed independently: a device
\* without id or timestamp, without temperatures, or whose processing or insert
\* raises is skipped; every other device of the list is inserted, and the cycle
\* returns normally.
C6_DeviceIsolation ==
    (pc = "finish" /\ devices # <<>>) =>
        /\ cycle.status = "returned"
        /\ \A i \in Delivered : HasKey(measurements, RowOf(devices[i]))
        /\ inserted = Cardinality(Delivered)

\* three devices, the middle one without a timestamp, two inserted
C6_Witness ==
    /\ pc = "finish"
    /\ Len(devices) = 3
    /\ ~Has(MeasurementOf(devices[2]), "ts")
    /\ Has(devices[2], "deviceid")
    /\ inserted = 2
    /\ BagCardinality(measurements) = 2

\* C7: if the stored handle was closed (locally or by the store) before an
\* insert_into_db call and the store is reachable, the call rebuilds the handle,
\* stores the row and returns without raising, with at most one retry.
C7_Reconnection ==
    (CallEnded /\ call.handle \in {"closed", "dead"}) =>
        /\ call.status = "returned"
        /\ call.execs <= 2
        /\ conn = "open"
        /\ HasKey(measurements, RowOf(devices[idx - 1]))

\* the store had closed the handle: the insert went through on the retry
C7_Witness ==
    /\ CallEnded
    /\ call.handle = "dead"
    /\ call.status = "returned"
    /\ call.execs = 2

\* C8: after each cycle the scheduler sleeps exactly max(0, interval - elapsed),
\* never a negative time, 0 when the cycle took at least the interval, also
\* after a cycle that failed or raised; consecutive cycles start
\* max(interval, elapsed) apart.
C8_IntervalCompensation ==
    /\ pc = "sleeping" =>
          /\ sleep_for >= 0
          /\ sleep_for = IF elapsed >= FETCH_INTERVAL_SECONDS
                         THEN 0 ELSE FETCH_INTERVAL_SECONDS - elapsed
    /\ (pc = "idle" /\ cycle.status # "none") =>
          now = IF elapsed >= FETCH_INTERVAL_SECONDS
                THEN elapsed ELSE FETCH_INTERVAL_SECONDS

\* a cycle that raised and overran the interval is followed by no sleep
C8_Witness ==
    /\ pc = "idle"
    /\ cycle.status = "raised"
    /\ elapsed > FETCH_INTERVAL_SECONDS
    /\ sleep_for = 0
    /\ now = elapsed

\* the scheduler moves Running -> Sleeping -> Idle -> Running
SchedulerOrder ==
    /\ pc = "finish" => pc' \in {"finish", "sleeping"}
    /\ pc = "sleeping" => pc' \in {"sleeping", "idle"}
    /\ pc = "idle" => pc' \in {"idle", "fetch"}

\* C9: the scheduler has no terminal state: whatever exception a cycle raises
\* is caught, and every cycle that ends, normally or by exception, is followed
\* by another cycle.
C9_SchedulerNeverStops ==
    /\ [](pc # "crashed")
    /\ [][SchedulerOrder]_vars
    /\ (pc = "finish") ~> (pc = "fetch")

\* a cycle raised, and the scheduler is about to start the next one
C9_Witness ==
    /\ pc = "idle"
    /\ cycle.status = "raised"

\* a step taken inside get_db_connection's loop: it stays in the loop, waiting
\* 5 seconds, or leaves it with a connection; it never raises
ConnectStep ==
    pc = "connect" =>
        \/ pc' = "connect" /\ now' \in {now, Tick(now, 5)} /\ conn' = conn
        \/ pc' = "exec" /\ conn' = "open" /\ dbUp

\* C10: get_db_connection never raises on a connectivity failure: it retries
\* every 5 seconds without a bound on the attempts, returns only a handle that
\* is not closed and, if the store eventually becomes and stays reachable,
\* eventually returns.
C10_AcquireRetriesForever ==
    /\ [](pc = "exec" => conn = "open")
    /\ [][ConnectStep]_vars
    /\ (<>[]dbUp) => ((pc \in {"get", "connect"}) ~> (pc = "exec"))

\* get_db_connection returned a handle after one failed attempt and its
\* 5 seconds of waiting
C10_Witness ==
    /\ pc = "exec"
    /\ cycle.requests = 1
    /\ now = RETRY_DELAY_SECONDS
    /\ conn = "open"
    /\ session

\* the config file exists and load_config raises on it
Unloadable(config) ==
    \/ config.kind = "unparsable"
    \/ /\ config.kind = "doc"
       /\ \/ ~Has(config.doc, "associations")
          \/ \E i \in 1..Len(config.doc.associations) :
                LET a == config.doc.associations[i] IN
                Has(a, "notmapping") \/ ~Has(a, "sensor_id") \/ ~Has(a, "room_id")

\* C11: the syncer's exit status is 2 if a required environment variable is
\* missing; otherwise 0, without any store interaction, if the config file does
\* not exist; otherwise 3 if the config fails to parse or validate; otherwise 4
\* if connecting or syncing fails; otherwise 0.  There is no other status.
C11_SyncerExitStatus ==
    s_pc = "done" =>
        /\ s_exit \in {0, 2, 3, 4}
        /\ s_exit = (CASE ~s_creds -> 2
                       [] s_creds /\ s_config.kind = "missing" -> 0
                       [] s_creds /\ Unloadable(s_config) -> 3
                       [] OTHER -> IF s_hist.failed # "no" THEN 4 ELSE 0)
        /\ s_exit \in {2, 3} => (~s_hist.tried /\ s_hist.failed = "no")
        /\ (s_exit = 0 /\ s_config.kind = "missing") =>
               (~s_hist.tried /\ s_hist.failed = "no")
        /\ (s_exit = 0 /\ s_config.kind # "missing") =>
               (s_hist.tried /\ room_assoc = Records(entries))

\* the environment lacks a credential and the config file does not parse:
\* the status is 2, not 3
C11_Witness ==
    /\ s_pc = "done"
    /\ ~s_creds
    /\ s_config.kind = "unparsable"
    /\ ~dbUp
    /\ s_exit = 2

\* C12: in each of the three processes a required store credential missing
\* from the environment ends the process at once with a non-zero exit status,
\* before any connection is attempted: the daemon started without them never
\* reaches a connection attempt, the probe and the syncer end with a non-zero
\* status without having tried one.
C12_MissingCredentialsFatal ==
    /\ ~d_creds => (pc # "connect" /\ conn = "None")
    /\ (h_pc = "done" /\ ~h_creds) => (h_exit > 0 /\ h_hist.connects = 0)
    /\ (s_pc = "done" /\ ~s_creds) => (s_exit > 0 /\ ~s_hist.tried)

\* the document is not empty and has no top-level `associations` key
Undeclared(config) == config.kind = "doc" /\ ~Has(config.doc, "associations")

\* the document has an entry without a sensor id or without a room id
BadEntry(config) ==
    /\ config.kind = "doc"
    /\ Has(config.doc, "associations")
    /\ \E i \in 1..Len(config.doc.associations) :
          LET a == config.doc.associations[i] IN
          ~Has(a, "sensor_id") \/ ~Has(a, "room_id")

\* the run ended with a validation error, before any connection was tried,
\* and room_assoc is as it was when the run began
RejectedUntouched ==
    /\ s_exit = 3
    /\ ~s_hist.tried
    /\ room_assoc = s_hist.pre

\* C13 as claimed: every document without a top-level `associations` key,
\* the empty document included, and every document with an entry that lacks
\* the sensor id or the room id is rejected with a validation error before a
\* connection is opened, and the run leaves room_assoc unchanged.
C13_EmptyDocumentRejected ==
    (s_pc = "done" /\ s_creds
       /\ (s_config.kind = "empty" \/ Undeclared(s_config) \/ BadEntry(s_config)))
        => RejectedUntouched

\* C13, amended: every non-empty document without a top-level `associations`
\* key and every document with an entry that lacks the sensor id or the room
\* id is rejected with a validation error before a connection is opened, and
\* the run leaves room_assoc unchanged; an empty document is not rejected: it
\* is loaded as an empty entry list and synced, which empties room_assoc when
\* the sync succeeds.
C13_ValidationBeforeStore ==
    (s_pc = "done" /\ s_creds) =>
        /\ (Undeclared(s_config) \/ BadEntry(s_config)) => RejectedUntouched
        /\ s_config.kind = "empty" =>
              /\ entries = <<>>
              /\ s_hist.tried
              /\ s_exit \in {0, 4}
              /\ s_exit = 0 => room_assoc = <<>>
              /\ s_exit = 4 => room_assoc = s_hist.pre

\* a document whose second entry lacks the room id was rejected while the
\* store was reachable and room_assoc held rows
C13_Witness ==
    /\ s_pc = "done"
    /\ s_creds
    /\ dbUp
    /\ BadEntry(s_config)
    /\ Len(s_config.doc.associations) = 2
    /\ ValidItem(s_config.doc.associations[1])
    /\ ~Has(s_config.doc.associations[2], "room_id")
    /\ s_exit = 3
    /\ room_assoc # <<>>

\* a step that executes the INSERT statement either completes the call, or is
\* the first execution failing on connectivity: the handle is discarded and
\* the statement is due once more, or is the second execution failing: the
\* error goes to the caller
RetryOnce ==
    (pc = "exec" /\ call'.execs = call.execs + 1) =>
        \/ call'.status = "returned"
        \/ /\ attempt = 1
           /\ conn # "open" \/ ~session
           /\ conn' = "None"
           /\ pc' = "get" /\ attempt' = 2
           /\ call'.status = "running"
        \/ /\ attempt = 2
           /\ conn # "open" \/ ~session
           /\ call'.status = "raised"
           /\ pc' = "loop" /\ idx \in raisedAt'

\* C14: on a connectivity-class failure of an insert, insert_into_db closes and
\* discards the handle, acquires a new one and executes the statement exactly
\* once more; if that execution fails too the error propagates to the caller.
\* The statement is executed at most twice per call.
C14_SingleRetry ==
    /\ [](call.execs <= 2)
    /\ []((pc = "exec" /\ attempt = 2) => (call.execs = 1 /\ conn = "open"))
    /\ [][RetryOnce]_vars

\* both executions of a call failed while the store was reachable: the error
\* went to fetch_data
C14_Witness ==
    /\ CallEnded
    /\ call.status = "raised"
    /\ call.execs = 2
    /\ dbUp
    /\ idx - 1 \in raisedAt

\* C15: if the HTTP fetch fails (timeout, network error, non-200 status,
\* malformed body) or the parsed response has an absent or false `success`
\* flag, the cycle performs no insert, raises no exception to the scheduler,
\* and the scheduler waits the normal remaining interval before the next cycle.
C15_FailedFetchIsQuiet ==
    cycle.fetched \in {"failed", "refused"} =>
        /\ cycle.status = "returned"
        /\ pc \in {"finish", "sleeping", "idle"}
        /\ call.status # "running" /\ inserted = 0
        /\ pc = "sleeping" =>
              sleep_for = IF elapsed >= FETCH_INTERVAL_SECONDS
                          THEN 0 ELSE FETCH_INTERVAL_SECONDS - elapsed

\* C16: every cycle makes exactly one API request when the sensor list is not
\* empty, whatever its length and whether or not the request fails, and none
\* when the list is empty; a cycle over an empty list touches neither the API
\* nor the store.
C16_OneRequestPerCycle ==
    /\ (cycle.status \in {"returned", "raised"} \/ pc \in {"loop", "get", "connect", "exec"})
          => cycle.requests = IF sensor_ids = <<>> THEN 0 ELSE 1
    /\ cycle.requests <= 1
    /\ sensor_ids = <<>> =>
          /\ cycle.fetched \in {"none", "skipped"}
          /\ pc \in {"idle", "fetch", "finish", "sleeping"}
          /\ call.status = "none"
          /\ conn = "None"
          /\ measurements = EmptyBag

\* a cycle over two sensors whose request failed is over after that one request
C16_Witness ==
    /\ pc = "sleeping"
    /\ Len(sensor_ids) = 2
    /\ cycle.fetched = "failed"
    /\ cycle.status = "returned"
    /\ cycle.requests = 1

\* the probe ended because its connection attempt failed
ProbeGaveUp ==
    /\ h_pc = "done"
    /\ h_creds
    /\ h_sensors # <<>>
    /\ h_i = 0
    /\ ~h_hist.reachable

\* the syncer ended because its connection attempts failed
SyncerGaveUp == s_pc = "done" /\ s_hist.failed = "connect"

\* C17 as claimed: the probe and the syncer retry a failed connection
\* indefinitely, so that a connectivity failure at connection-acquisition time
\* never by itself ends either process.
C17_ToolsRetryForever == ~ProbeGaveUp /\ ~SyncerGaveUp

\* a connection attempt of the probe: it connects, or the probe fails at once
ProbeConnectStep ==
    (h_pc = "connect" /\ h_creds /\ h_pc' # h_pc) =>
        IF dbUp
        THEN h_pc' = "query" /\ h_hist'.connects = 1
        ELSE h_pc' = "done" /\ h_exit' = 1 /\ h_hist'.connects = 1

\* a connection attempt of the syncer: it connects, or the next of its 12
\* attempts is due, or the 12th has failed and the syncer ends with status 4
SyncConnectStep ==
    (s_pc = "connect" /\ (s_pc' # s_pc \/ s_attempt' # s_attempt)) =>
        IF dbUp
        THEN s_pc' = "ddl"
        ELSE IF s_attempt < 12
        THEN s_pc' = "connect" /\ s_attempt' = s_attempt + 1
        ELSE s_pc' = "done" /\ s_exit' = 4

\* C17, amended: neither the probe nor the syncer acquires its connection
\* with the Connection Manager's policy.  The probe makes a single connection
\* attempt and exits 1 when it fails; the syncer makes up to 12 attempts,
\* 5 seconds apart, and ends with exit status 4 when the 12th fails.
C17_BoundedAcquisition ==
    /\ [](h_hist.connects <= 1)
    /\ [](ProbeGaveUp => (h_exit = 1 /\ h_hist.connects = 1 /\ h_hist.queries = 0))
    /\ [](s_attempt <= 12)
    /\ [](SyncerGaveUp => (s_exit = 4 /\ s_attempt = 12 /\ ~s_session))
    /\ [][ProbeConnectStep /\ SyncConnectStep]_vars

\* the store stayed away: the probe has failed on its only attempt and the
\* syncer on its 12th
C17_Witness ==
    /\ ProbeGaveUp
    /\ h_exit = 1
    /\ SyncerGaveUp
    /\ s_attempt = 12
    /\ s_exit = 4

\* C18: every connectivity-class failure of an operation on the shared handle,
\* on the first attempt and on the retry alike, is followed by the handle being
\* closed and discarded: during the retry the old handle is gone, and when
\* insert_into_db has raised the process holds no handle at all.
C18_FailedHandleDiscarded ==
    /\ (pc \in {"get", "connect"} /\ attempt = 2) => conn = "None"
    /\ (CallEnded /\ call.status = "raised") => conn = "None"

\* C19: every measurement the pipeline submits for insertion carries a t1
\* value, and no row of measurements has t1 absent, also when a device reports
\* only t2.
C19_RowsCarryT1 ==
    /\ pc = "exec" => RowOf(devices[idx]).t1 # NULL
    /\ \A r \in BagToSet(measurements) : r.t1 # NULL

\* C20 as claimed: every fetch cycle that starts eventually ends, so that the
\* scheduler reaches its Sleeping state, for every behaviour of the API and of
\* the store, a store that stays unreachable included.
C20_EveryCycleEnds == (pc = "fetch") ~> (pc = "sleeping")

\* while the store is unreachable get_db_connection does not return
BlockedWhileDown == (pc = "connect" /\ ~dbUp) => pc' = "connect"

\* C20, amended: every fetch cycle that starts eventually ends, so that the
\* scheduler reaches its Sleeping state, for every behaviour of the API and for
\* every behaviour of the store in which it eventually becomes and stays
\* reachable; while the store is unreachable a cycle that has a row to insert
\* stays in get_db_connection's retry loop.
C20_CycleEndsOnceStoreStays ==
    /\ (<>[]dbUp) => ((pc = "fetch") ~> (pc = "sleeping"))
    /\ [][BlockedWhileDown]_vars

\* a cycle that waited once for the store has inserted its device and ended
C20_Witness ==
    /\ pc = "sleeping"
    /\ cycle.fetched = "devices"
    /\ cycle.status = "returned"
    /\ elapsed = RETRY_DELAY_SECONDS
    /\ conn = "open"
    /\ BagCardinality(measurements) = 1

\* a SELECT of the reader returns in this step
ReadReturns == r_pc = "waiting" /\ r_pc' = "idle" /\ r_rows'.ok

\* a syncer run is between its start and the end of its process
SyncRunning == s_pc \notin {"off"}

\* what a read that returns during a syncer run shows: the entry list once the
\* run has committed, the rows from before the run until then
WholeTable ==
    (ReadReturns /\ SyncRunning) =>
        /\ r_rows'.rows \in {s_hist.pre, Records(entries)}
        /\ r_rows'.rows = IF s_pc = "done" /\ s_exit = 0 /\ s_hist.tried
                          THEN Records(entries)
                          ELSE s_hist.pre

\* C21: a reader of room_assoc running next to a sync, at any point between
\* the sync's truncate, bulk insert and commit or rollback, observes either
\* the complete contents from before the sync or the complete new entry list,
\* never the table empty after the truncate or partly inserted.
C21_ReaderSeesWholeTable == [][WholeTable]_vars

\* a SELECT sent between the truncate and the commit of a sync that replaced
\* one row by two others has returned the two new rows
C21_Witness ==
    /\ r_pc = "idle"
    /\ r_rows.ok
    /\ r_rows.blocked
    /\ s_pc = "done"
    /\ s_exit = 0
    /\ Len(s_hist.pre) = 1
    /\ Len(entries) = 2
    /\ r_rows.rows = Records(entries)

====
